---- MODULE Spec2Model ----
\* A model of the bio-link detection pipeline of onlyfans_detector.py:
\* the orchestrator detect_onlyfans, its three strategies, the redirect
\* follower, and the mocked collaborators (HTTP client, browser) they await.
EXTENDS Integers, Sequences, FiniteSets, TLC

\* ---------------------------------------------------------------- bounds
\* Most links (href and data-url values together) one fetched markup carries.
MaxLinks == 2
\* Most link-bearing elements of one rendered page.
MaxElems == 1
\* Most redirect locations the response listener captures in one browser session.
MaxObserved == 1

\* ------------------------------------------------------ program constants
\* _follow_redirects(..., max_redirects: int = 5)
max_redirects == 5
\* for link in all_links[:20]
LinkCap == 20
\* for i in range(min(count, 100)) / range(min(count, 50))
AnchorCap == 100
DataCap == 50
\* for i in range(min(count, 10)) / range(min(count, 20))
LinkButtonCap == 10
GenericCap == 20

\* ------------------------------------------------------------ sequences
SeqUpTo(S, n) ==
    UNION {[1..k -> S] : k \in 0..n}

MapSeq(F(_), s) ==
    [i \in 1..Len(s) |-> F(s[i])]

Range(s) ==
    {s[i] : i \in 1..Len(s)}

Min(a, b) ==
    IF a < b THEN a ELSE b

\* s[:] in place of s[:n]
PrefixWithoutCap(s, n) ==
    s

\* s[:n]
Prefix(s, n) ==
    SubSeq(s, 1, Min(n, Len(s)))

\* The orderings of a finite set as sequences without repetition.
Orderings(S) ==
    {s \in [1..Cardinality(S) -> S] : Range(s) = S}

\* ------------------------------------------------------------------ URLs
\* A URL is a string origin \o path; the utilities below read its parts
\* the way the code's substring tests, regexes and urljoin/urlparse do.
NoneVal == "None"

OFOrigin == "https://onlyfans.com"
OFOriginUC == "https://OnlyFans.com"
ShortOrigin == "https://short.link"
LinkmeOrigin == "https://link.me"
LinktreeOrigin == "https://linktr.ee"
BeaconsOrigin == "https://beacons.ai"
SocialOrigin == "https://getmysocial.com"
OtherOrigin == "https://example.bio"

Origins ==
    {OFOrigin, OFOriginUC, ShortOrigin, LinkmeOrigin, LinktreeOrigin,
     BeaconsOrigin, SocialOrigin, OtherOrigin}

Paths ==
    {"/creatorname", "/CreatorName", "/files/abc123", "/public/x", "/x", "/u", "/go/of"}

OFProfile == OFOrigin \o "/creatorname"
OFProfileUC == OFOriginUC \o "/CreatorName"
OFFiles == OFOrigin \o "/files/abc123"
OFPublic == OFOrigin \o "/public/x"
ShortLink == ShortOrigin \o "/x"
GoOf == "/go/of"
Anchor == "#top"
Mailto == "mailto:me@example.bio"

AbsoluteURLs ==
    {o \o p : o \in Origins, p \in Paths}

\* urlparse(u): the origin (scheme://netloc) and the path of an absolute URL.
UrlParts ==
    [u \in AbsoluteURLs |->
        CHOOSE x \in Origins \X Paths : u = x[1] \o x[2]]

OriginOf(u) ==
    IF u \in AbsoluteURLs THEN UrlParts[u][1] ELSE ""

PathOf(u) ==
    IF u \in AbsoluteURLs THEN UrlParts[u][2] ELSE u

\* str.lower()
LowerPart(s) ==
    CASE s = OFOriginUC -> OFOrigin
      [] s = "/CreatorName" -> "/creatorname"
      [] OTHER -> s

Lower(u) ==
    IF u \in AbsoluteURLs THEN LowerPart(OriginOf(u)) \o LowerPart(PathOf(u)) ELSE u

\* 'onlyfans.com' in u  (case-sensitive substring)
ContainsOF(u) ==
    OriginOf(u) = OFOrigin

\* OF_REGEX.search(u): re.compile(r"onlyfans\.com", re.IGNORECASE);
\* the same test as 'onlyfans.com' in u.lower()
MatchesTarget(u) ==
    ContainsOF(Lower(u))

\* '/files' in u, '/public' in u  (case-sensitive substrings)
ContainsFiles(u) ==
    PathOf(u) = "/files/abc123"

ContainsPublic(u) ==
    PathOf(u) = "/public/x"

\* The spec's exclusion list: the non-profile path substrings.
IsExcluded(u) ==
    ContainsFiles(u) \/ ContainsPublic(u)

\* u.startswith('/'), u.startswith('http'), u.startswith('#'), u.startswith('mailto:')
StartsWithSlash(u) ==
    u \in Paths

StartsWithHttp(u) ==
    u \in AbsoluteURLs

StartsWithHash(u) ==
    u = Anchor

StartsWithMailto(u) ==
    u = Mailto

\* urljoin(base, ref) for a path-absolute ref: the base's origin with ref as path.
UrlJoin(base, ref) ==
    IF StartsWithSlash(ref) THEN OriginOf(base) \o ref ELSE ref

\* urlparse(base).netloc.lower(), tested with 'name' in domain
NetlocHas(base, origin) ==
    LowerPart(OriginOf(base)) = origin

\* ------------------------------------------------------- the result record
Fields ==
    {"has_onlyfans", "onlyfans_urls", "detection_method", "errors", "debug_info"}

\* The dict literal of __init__ and of detect_onlyfans.
FreshRecord ==
    [has_onlyfans |-> FALSE,
     onlyfans_urls |-> <<>>,
     detection_method |-> NoneVal,
     errors |-> <<>>,
     debug_info |-> <<>>]

\* The four writes every successful strategy makes, one after the other
\* without a suspension point between them.
MarkFoundNoMethod(rec, urls, method, note) ==
    [rec EXCEPT !.has_onlyfans = TRUE,
                !.onlyfans_urls = urls,
                !.debug_info = Append(@, note)]

MarkFound(rec, urls, method, note) ==
    [rec EXCEPT !.has_onlyfans = TRUE,
                !.onlyfans_urls = urls,
                !.detection_method = method,
                !.debug_info = Append(@, note)]

\* self.results["errors"].append(f"<prefix>: {str(e)}"); a note is
\* identified by its prefix.
DropError(rec, note) ==
    rec

\* errors.insert(0, ...) in place of errors.append(...)
PrependError(rec, note) ==
    [rec EXCEPT !.errors = <<note>> \o @]

AppendError(rec, note) ==
    [rec EXCEPT !.errors = Append(@, note)]

\* ------------------------------------------------------------ exceptions
NoExc == "NoExc"

\* What the collaborators raise: httpx.TimeoutException, httpx.ConnectError,
\* playwright's TimeoutError and Error. All derive from Exception.
HttpExceptions ==
    {"TimeoutException", "ConnectError"}

BrowserExceptions ==
    {"PlaywrightTimeoutError", "PlaywrightError"}

Exceptions ==
    HttpExceptions \cup BrowserExceptions

\* A handler that names one exception class only.
CatchesTimeoutOnly(exc) ==
    exc = "TimeoutException"

\* `except Exception as e:` (and the bare `except:`): whether the clause
\* catches exc.
Catches(exc) ==
    exc \in Exceptions

\* What a strategy hands back to detect_onlyfans: the record as it left it,
\* its return value, and the exception that escaped it (NoExc: none).
Outcome(rec, found, exc) ==
    [rec |-> rec, found |-> found, exc |-> exc]

\* try: ... except Exception as e: errors.append(note); return False
Handled(rec, exc, note) ==
    IF Catches(exc)
    THEN Outcome(AppendError(rec, note), FALSE, NoExc)
    ELSE Outcome(rec, FALSE, exc)

\* ------------------------------------------------------ HTTP collaborator
LinkValues ==
    {OFProfile, OFProfileUC, OFFiles, OFPublic, ShortLink, GoOf, Anchor, Mailto}

\* The raw markup of a page: its href values and its data-url values, each in
\* document order.
Markups ==
    UNION {[hrefs : [1..n[1] -> LinkValues], dataurls : [1..n[2] -> LinkValues]] :
           n \in {m \in (0..MaxLinks) \X (0..MaxLinks) : m[1] + m[2] <= MaxLinks}}

EmptyMarkup ==
    [hrefs |-> <<>>, dataurls |-> <<>>]

\* client.get(bio_link, timeout=15): a response or a raised transport error.
GetResponses ==
    {[kind |-> "raise", exc |-> e, status |-> 0, markup |-> EmptyMarkup] : e \in HttpExceptions}
    \cup {[kind |-> "response", exc |-> NoExc, status |-> 404, markup |-> EmptyMarkup]}
    \cup {[kind |-> "response", exc |-> NoExc, status |-> 200, markup |-> m] : m \in Markups}

\* What the mock HTTP client logs for a GET.
GetClass(resp) ==
    IF resp.kind = "raise" THEN "raised"
    ELSE IF resp.status = 200 THEN "200" ELSE "non200"

\* ------------------------------------------------------------ DirectScan
\* content = response.text.lower();
\* re.findall(r'https?://[^\s<>"\']*onlyfans\.com[^\s<>"\']*', content, re.IGNORECASE)
DirectFindAll(markup) ==
    SelectSeq(MapSeq(Lower, markup.hrefs \o markup.dataurls),
              LAMBDA u : StartsWithHttp(u) /\ MatchesTarget(u))

\* [url for url in of_urls if '/files' not in url and '/public' not in url]
DirectValid(of_urls) ==
    SelectSeq(of_urls, LAMBDA u : ~ContainsFiles(u) /\ ~ContainsPublic(u))

\* _check_direct_links, given the response of its one GET.
CheckDirectLinks(rec, resp) ==
    IF resp.kind = "raise"
    THEN Handled(rec, resp.exc, "Direct link check failed")
    ELSE IF resp.status = 200 /\ DirectValid(DirectFindAll(resp.markup)) # <<>>
         THEN Outcome(MarkFound(rec, DirectValid(DirectFindAll(resp.markup)),
                                "direct_html_scan", "Found direct OnlyFans links"),
                      TRUE, NoExc)
         ELSE Outcome(rec, FALSE, NoExc)

\* ------------------------------------------------------ Redirect Follower
NoLocation == "NoLocation"

Locations ==
    {ShortLink, OFProfile, OFPublic, GoOf}

\* client.head(current, follow_redirects=False, timeout=10): a status with
\* its Location header, or a raised transport error.
HeadResponses ==
    {[kind |-> "raise", status |-> 0, location |-> NoLocation]}
    \cup [kind : {"response"}, status : {200}, location : {NoLocation}]
    \cup [kind : {"response"}, status : {302}, location : Locations \cup {NoLocation}]

\* The redirector endpoints of the mocked web: a link ending in /go/of and
\* the short link. Every other URL answers 200.
RedirectNodes ==
    {"go", "short"}

RedirectGraphs ==
    [RedirectNodes -> HeadResponses]

HeadOf(graph, url) ==
    CASE PathOf(url) = GoOf -> graph["go"]
      [] url = ShortLink -> graph["short"]
      [] OTHER -> [kind |-> "response", status |-> 200, location |-> NoLocation]

RedirectStatuses ==
    {301, 302, 303, 307, 308}

\* The loop body without chain.append(current).
FollowStepForgetsChain(graph, st) ==
    LET resp == HeadOf(graph, st.current)
        heads == st.heads + 1
    IN  IF resp.kind = "response" /\ resp.status \in RedirectStatuses
                                 /\ resp.location # NoLocation
        THEN [st EXCEPT !.current = UrlJoin(st.current, resp.location), !.heads = heads]
        ELSE [st EXCEPT !.heads = heads, !.stop = TRUE]

\* The loop body with a redirect that carries no Location header appended
\* to the chain and the walk going on.
FollowStepWithoutBreak(graph, st) ==
    LET resp == HeadOf(graph, st.current)
        heads == st.heads + 1
    IN  IF resp.kind = "raise"
        THEN [st EXCEPT !.heads = heads, !.stop = TRUE]
        ELSE IF resp.status \in RedirectStatuses
             THEN LET to == IF resp.location = NoLocation THEN st.current
                            ELSE UrlJoin(st.current, resp.location)
                  IN  [current |-> to, chain |-> Append(st.chain, to),
                       heads |-> heads, stop |-> FALSE]
             ELSE [st EXCEPT !.heads = heads, !.stop = TRUE]

\* One iteration of the loop body, from the state (current, chain, heads):
\* stop |-> TRUE is a break.
FollowStep(graph, st) ==
    LET resp == HeadOf(graph, st.current)
        heads == st.heads + 1
    IN  IF resp.kind = "raise"
        THEN [st EXCEPT !.heads = heads, !.stop = TRUE]
        ELSE IF resp.status \in RedirectStatuses /\ resp.location # NoLocation
             THEN [current |-> UrlJoin(st.current, resp.location),
                   chain |-> Append(st.chain, UrlJoin(st.current, resp.location)),
                   heads |-> heads,
                   stop |-> FALSE]
             ELSE [st EXCEPT !.heads = heads, !.stop = TRUE]

RECURSIVE FollowLoop(_, _, _)
\* for _ in range(n): the iterations left.
FollowLoop(graph, st, n) ==
    IF n = 0 \/ st.stop
    THEN st
    ELSE FollowLoop(graph, FollowStep(graph, st), n - 1)

\* The loop bound pushed one past the parameter.
FollowRedirectsOneMore(graph, url, hops) ==
    FollowLoop(graph, [current |-> url, chain |-> <<url>>, heads |-> 0, stop |-> FALSE],
               hops + 1)

\* _follow_redirects(client, url, max_redirects): (current, chain), and the
\* number of HEAD requests issued.
FollowRedirects(graph, url, hops) ==
    FollowLoop(graph, [current |-> url, chain |-> <<url>>, heads |-> 0, stop |-> FALSE],
               hops)

\* ---------------------------------------------------------- RedirectProbe
\* The test applied to a terminal URL (and to an extracted link):
\* OF_REGEX.search(u) and '/files' not in u and '/public' not in u
IsProfileMatch(u) ==
    MatchesTarget(u) /\ ~ContainsFiles(u) /\ ~ContainsPublic(u)

\* if not link or link.startswith('#') or link.startswith('mailto:'): continue
ProbeSkips(link) ==
    link = "" \/ StartsWithHash(link) \/ StartsWithMailto(link)

RECURSIVE ProbeLinks(_, _, _, _, _)
\* for link in all_links[:20], from the i-th link on: the strategy's outcome
\* and, in call order, what each _follow_redirects call returned.
ProbeLinks(rec, links, i, graph, bio_link) ==
    IF i > Len(links)
    THEN [rec |-> rec, found |-> FALSE, exc |-> NoExc, followed |-> <<>>]
    ELSE IF ProbeSkips(links[i])
         THEN ProbeLinks(rec, links, i + 1, graph, bio_link)
         ELSE LET walk == FollowRedirects(graph, UrlJoin(bio_link, links[i]), max_redirects)
                  final_url == walk.current
              IN  IF IsProfileMatch(final_url)
                  THEN [rec |-> MarkFound(rec, <<final_url>>, "redirect_chain",
                                          "Found OnlyFans via redirect"),
                        found |-> TRUE, exc |-> NoExc, followed |-> <<walk>>]
                  ELSE LET rest == ProbeLinks(rec, links, i + 1, graph, bio_link)
                       IN  [rest EXCEPT !.followed = <<walk>> \o @]

\* _check_redirect_chains, given the response of its GET and the redirect
\* graph its HEAD requests walk.
CheckRedirectChains(rec, resp, graph, bio_link) ==
    IF resp.kind = "raise"
    THEN Handled(rec, resp.exc, "Redirect chain check failed")
    ELSE IF resp.status = 200
         THEN ProbeLinks(rec, Prefix(resp.markup.hrefs \o resp.markup.dataurls, LinkCap),
                         1, graph, bio_link)
         ELSE Outcome(rec, FALSE, NoExc)

\* --------------------------------------------------- browser collaborator
\* A get_attribute() that raises (a stale element handle).
Stale == "StaleElement"

ElemValues ==
    {OFProfile, OFProfileUC, OFFiles, OFPublic, ShortLink, GoOf, Anchor}

\* What the raw-text regex can find in rendered markup.
TextURLs ==
    {OFProfile, OFProfileUC, OFFiles, OFPublic}

\* Where extraction can raise outside a per-element handler: the count() of
\* the anchor pass, the count() of a data-attribute pass, page.content().
FailPoints ==
    {"none", "anchors_count", "data_count", "content"}

\* A rendered page as the Link Extractor sees it, with at most MaxElems
\* link-bearing elements in all.
Pages ==
    UNION {[anchors : [1..n[1] -> ElemValues \cup {Stale}],
            data : [1..n[2] -> ElemValues \cup {Stale}],
            text : [1..n[3] -> TextURLs],
            fail : FailPoints] :
           n \in {m \in (0..MaxElems) \X (0..MaxElems) \X (0..MaxElems) :
                      m[1] + m[2] + m[3] <= MaxElems}}

\* if href: startswith('/') -> urljoin(base_url, href); startswith('http') -> href
AnchorLinks(page, base_url) ==
    {UrlJoin(base_url, h) :
        h \in {e \in Range(Prefix(page.anchors, AnchorCap)) :
                  e # Stale /\ (StartsWithSlash(e) \/ StartsWithHttp(e))}}

\* if value and ('http' in value or '/' in value): startswith('http') -> value;
\* startswith('/') -> urljoin(base_url, value)
DataLinks(page, base_url) ==
    {UrlJoin(base_url, h) :
        h \in {e \in Range(Prefix(page.data, DataCap)) :
                  e # Stale /\ (StartsWithSlash(e) \/ StartsWithHttp(e))}}

\* re.findall(r'https?://[^\s<>"\']*onlyfans\.com[^\s<>"\']*', page_text, re.IGNORECASE)
TextLinks(page) ==
    {u \in Range(page.text) : StartsWithHttp(u) /\ MatchesTarget(u)}

\* _extract_all_links: set(links), the record (a count() that raises leaves
\* "Link extraction failed" in errors and ends the passes), and the exception
\* that escaped.
ExtractAllLinks(rec, page, base_url) ==
    CASE page.fail = "anchors_count" ->
            [links |-> {}, out |-> Handled(rec, "PlaywrightError", "Link extraction failed")]
      [] page.fail = "data_count" ->
            [links |-> AnchorLinks(page, base_url),
             out |-> Handled(rec, "PlaywrightError", "Link extraction failed")]
      [] page.fail = "content" ->
            [links |-> AnchorLinks(page, base_url) \cup DataLinks(page, base_url),
             out |-> Outcome(rec, FALSE, NoExc)]
      [] OTHER ->
            [links |-> AnchorLinks(page, base_url) \cup DataLinks(page, base_url)
                          \cup TextLinks(page),
             out |-> Outcome(rec, FALSE, NoExc)]

\* [link for link in all_links if OF_REGEX.search(link)
\*       and '/files' not in link and '/public' not in link]
OfLinks(all_links) ==
    SelectSeq(all_links, IsProfileMatch)

\* A 3xx response the listener sees: its status and Location header.
ObservedResponses ==
    [status : {302}, location : {OFProfile, OFFiles, OFPublic, ShortLink, ""}]
    \cup [status : {200}, location : {OFProfile}]

\* handle_response: 300 <= status < 400 and 'onlyfans.com' in location.lower()
\* and '/files' not in location
Captures(response) ==
    /\ response.status >= 300
    /\ response.status < 400
    /\ ContainsOF(Lower(response.location))
    /\ ~ContainsFiles(response.location)

\* onlyfans_redirects after the listener has handled `observed`.
HandleResponses(onlyfans_redirects, observed) ==
    onlyfans_redirects \o MapSeq(LAMBDA r : r.location, SelectSeq(observed, Captures))

\* The test of the click strategies:
\* 'onlyfans.com' in url.lower() and '/files' not in url
ClickAccepts(url) ==
    ContainsOF(Lower(url)) /\ ~ContainsFiles(url)

ContinueSelectors ==
    <<"button:has-text('Continue')", "button:has-text('CONTINUE')",
      "button:has-text('Proceed')", "button:has-text('Enter')">>

\* What one continue selector does: no such button, a click (or count) that
\* raises, or the page URL after the click.
ButtonOutcomes ==
    {"absent", "raises", OFProfile, OFPublic, OFFiles}

\* The link.me page as the click recipe sees it.
LinkmeScripts ==
    [container : {"absent", "count_raises", "click_raises"},
     buttons : {[i \in DOMAIN ContinueSelectors |-> "absent"]}]
    \cup [container : {"present"}, buttons : [DOMAIN ContinueSelectors -> ButtonOutcomes]]

RECURSIVE LinkmeButtons(_, _, _)
\* for selector in continue_selectors, from the i-th selector on: the
\* outcome and, in click order, the selectors whose button was clicked.
LinkmeButtons(rec, buttons, i) ==
    IF i > Len(buttons)
    THEN [rec |-> rec, found |-> FALSE, exc |-> NoExc, clicked |-> <<>>]
    ELSE IF buttons[i] = "absent"
         THEN LinkmeButtons(rec, buttons, i + 1)
         ELSE IF buttons[i] = "raises"
              THEN IF Catches("PlaywrightError")
                   THEN LinkmeButtons(rec, buttons, i + 1)
                   ELSE [rec |-> rec, found |-> FALSE, exc |-> "PlaywrightError",
                         clicked |-> <<>>]
              ELSE IF ClickAccepts(buttons[i])
                   THEN [rec |-> MarkFound(rec, <<buttons[i]>>, "linkme_interactive",
                                           "Successfully clicked through Link.me OnlyFans flow"),
                         found |-> TRUE, exc |-> NoExc, clicked |-> <<ContinueSelectors[i]>>]
                   ELSE LET rest == LinkmeButtons(rec, buttons, i + 1)
                        IN  [rest EXCEPT !.clicked = <<ContinueSelectors[i]>> \o @]

\* _handle_linkme_clicks
HandleLinkmeClicks(rec, script) ==
    CASE script.container = "absent" -> Outcome(rec, FALSE, NoExc)
      [] script.container \in {"count_raises", "click_raises"} ->
            Handled(rec, "PlaywrightError", "Link.me clicks failed")
      [] OTHER -> LET out == LinkmeButtons(rec, script.buttons, 1)
                  IN  [out EXCEPT !.clicked = <<"container">> \o @]

\* The elements a selector matches, by their href attribute (None: no such
\* attribute), and whether a count() raises.
ElementScripts ==
    [count_raises : BOOLEAN,
     elems : SeqUpTo(ElemValues \cup {Stale, NoneVal}, MaxElems)]

RECURSIVE HrefScan(_, _, _, _)
\* for i in range(min(count, cap)): the first element whose href passes
\* `href and 'onlyfans.com' in href.lower() and '/files' not in href`
HrefScan(rec, elems, i, method) ==
    IF i > Len(elems)
    THEN Outcome(rec, FALSE, NoExc)
    ELSE IF elems[i] = Stale
         THEN IF Catches("PlaywrightError")
              THEN HrefScan(rec, elems, i + 1, method)
              ELSE Outcome(rec, FALSE, "PlaywrightError")
         ELSE IF elems[i] # NoneVal /\ ClickAccepts(elems[i])
              THEN Outcome(MarkFound(rec, <<elems[i]>>, method[1], method[2]), TRUE, NoExc)
              ELSE HrefScan(rec, elems, i + 1, method)

\* _handle_linktree_clicks: one selector, its count() first.
HandleLinktreeClicks(rec, script) ==
    IF script.count_raises
    THEN Handled(rec, "PlaywrightError", "Linktree clicks failed")
    ELSE HrefScan(rec, Prefix(script.elems, LinkButtonCap), 1,
                  <<"linktree_direct", "Found OnlyFans link in Linktree">>)

\* _handle_generic_clicks: six selectors in turn; elems are the elements of
\* the selectors counted so far, count_raises a later selector's count().
HandleGenericClicks(rec, script) ==
    LET scan == HrefScan(rec, Prefix(script.elems, GenericCap), 1,
                         <<"generic_platform", "Found OnlyFans link in generic platform">>)
    IN  IF scan.exc # NoExc
        THEN Handled(rec, scan.exc, "Generic clicks failed")
        ELSE IF scan.found \/ ~script.count_raises
             THEN scan
             ELSE Handled(rec, "PlaywrightError", "Generic clicks failed")

\* The branch _try_interactive_clicks takes for a bio link.
Platform(base_url) ==
    CASE NetlocHas(base_url, LinkmeOrigin) -> "linkme"
      [] NetlocHas(base_url, LinktreeOrigin) -> "linktree"
      [] NetlocHas(base_url, BeaconsOrigin) \/ NetlocHas(base_url, SocialOrigin) -> "generic"
      [] OTHER -> "none"

ClickScripts(base_url) ==
    IF Platform(base_url) = "linkme" THEN LinkmeScripts ELSE ElementScripts

\* The platform branch of _try_interactive_clicks.
DispatchClicks(rec, base_url, script) ==
    CASE Platform(base_url) = "linkme" -> HandleLinkmeClicks(rec, script)
      [] Platform(base_url) = "linktree" -> HandleLinktreeClicks(rec, script)
      [] Platform(base_url) = "generic" -> HandleGenericClicks(rec, script)
      [] OTHER -> Outcome(rec, FALSE, NoExc)

\* _try_interactive_clicks
TryInteractiveClicks(rec, base_url, script) ==
    LET out == DispatchClicks(rec, base_url, script)
    IN  IF out.exc # NoExc
        THEN Handled(out.rec, out.exc, "Interactive clicks failed")
        ELSE out

\* await browser.close()
BrowserClose(b) ==
    "closed"

\* Leaving `async with async_playwright()` without stopping what it started.
PlaywrightLeaves(b) ==
    b

\* Leaving `async with async_playwright() as p`: the driver is stopped, and a
\* browser it launched that is still open ends with it.
PlaywrightExit(b) ==
    IF b = "open" THEN "closed" ELSE b

\* ------------------------------------------------------------ set order
\* list(set(links)): the order a set is listed in is fixed by the process's
\* string hash seed. Two seeds are modelled, listing a set by rank upwards
\* or downwards.
HashSeeds ==
    {"up", "down"}

OriginRank ==
    <<OFOrigin, OFOriginUC, ShortOrigin, LinkmeOrigin, LinktreeOrigin,
      BeaconsOrigin, SocialOrigin, OtherOrigin>>

PathRank ==
    <<"/creatorname", "/CreatorName", "/files/abc123", "/public/x", "/x", "/u", "/go/of">>

IndexIn(s, x) ==
    CHOOSE i \in 1..Len(s) : s[i] = x

Rank(u) ==
    IndexIn(OriginRank, OriginOf(u)) * (Len(PathRank) + 1) + IndexIn(PathRank, PathOf(u))

ListOfSet(S, seed) ==
    CHOOSE s \in Orderings(S) :
        \A i, j \in 1..Len(s) :
            i < j => IF seed = "up" THEN Rank(s[i]) < Rank(s[j]) ELSE Rank(s[i]) > Rank(s[j])

\* ------------------------------------------------------ the orchestrator
\* The strategy after `state`, given what it returned.
NextStateIgnoringResult(state, found) ==
    CASE state = "DirectScan" -> "InteractiveAnalysis"
      [] state = "InteractiveAnalysis" -> "RedirectProbe"
      [] OTHER -> "Done"

NextStateSwapped(state, found) ==
    IF found
    THEN "Done"
    ELSE CASE state = "DirectScan" -> "RedirectProbe"
           [] state = "RedirectProbe" -> "InteractiveAnalysis"
           [] OTHER -> "Done"

\* detect_onlyfans: `if await self._check_...(bio_link): return self.results`,
\* three times, in this order.
NextState(state, found) ==
    IF found
    THEN "Done"
    ELSE CASE state = "DirectScan" -> "InteractiveAnalysis"
           [] state = "InteractiveAnalysis" -> "RedirectProbe"
           [] OTHER -> "Done"

\* The collaborator call a strategy suspends in first.
FirstAwait(state) ==
    CASE state = "DirectScan" -> "get"
      [] state = "InteractiveAnalysis" -> "launch"
      [] state = "RedirectProbe" -> "get"
      [] OTHER -> "none"

\* ------------------------------------------------------------- the state
\* The detection calls in flight at once.
Calls ==
    {1, 2}

BioLinks ==
    {LinkmeOrigin \o "/u", LinktreeOrigin \o "/u", BeaconsOrigin \o "/u", OtherOrigin \o "/u"}

VARIABLES
    heap,               \* the result dicts allocated so far: heap[r] is dict r
    detectors,          \* the OnlyFansDetector instances; detectors[d].results is self.results
    browsers,           \* the browser sessions launched so far: "open" or "closed"
    pc,                 \* per call: the orchestrator state it is in
    at,                 \* per call: the collaborator call it is suspended in
    self,               \* per call: the detector it runs on (0: none yet)
    bio_link,           \* per call: its argument
    returned,           \* per call: the dict detect_onlyfans returned (0: none yet)
    browser,            \* per call: the local `browser` (0: none)
    onlyfans_redirects, \* per call: the listener's list
    all_links,          \* per call: those of all_links[:20] the probe loop does not skip
    mock,               \* per call: the collaborator calls it made, with their outcome
    trail,              \* per call: the strategies that returned, with their result
    follow,             \* a _follow_redirects call on its own: arguments and result
    unit,               \* a strategy or helper call on its own: arguments and result
    api,                \* the Flask service: the request in hand and its response
    world               \* the mocked collaborators: live, or a static page

vars ==
    <<heap, detectors, browsers, pc, at, self, bio_link, returned, browser,
      onlyfans_redirects, all_links, mock, trail, follow, unit, api, world>>

Sites ==
    {"bio", "get", "launch", "new_page", "goto", "observed", "page", "seed",
     "script", "graph"}

\* The mocked collaborators answer from their full repertoire or from a short
\* one, and either afresh at every call or, for a static fixture page, as
\* they answered the same call before.
World(full, static) ==
    [full |-> full, static |-> static, memo |-> [site \in Sites |-> <<>>]]

Offered(all_choices, short_choices) ==
    IF world.full THEN all_choices ELSE short_choices

Scripted(site, r) ==
    ~world.static \/ world.memo[site] \in {<<>>, <<r>>}

Remember(w, site, r) ==
    IF w.static THEN [w EXCEPT !.memo[site] = <<r>>] ELSE w

\* The short repertoire.
ShortBios ==
    {LinkmeOrigin \o "/u", OtherOrigin \o "/u"}

ShortGets ==
    {r \in GetResponses :
        /\ r.exc # "ConnectError"
        /\ r.kind = "response" => r.status = 200
        /\ r.markup.dataurls = <<>>
        /\ r.markup.hrefs \in {<<>>, <<OFProfile>>, <<GoOf>>}}

ShortObserved ==
    {[status |-> 302, location |-> OFProfile]}

ShortPages ==
    {p \in Pages : /\ p.fail \in {"none", "anchors_count"}
                   /\ p.data = <<>>
                   /\ p.text = <<>>
                   /\ Range(p.anchors) \subseteq {OFProfileUC}}

ShortScripts(base_url) ==
    IF Platform(base_url) = "linkme"
    THEN {x \in LinkmeScripts :
             /\ x.container \in {"absent", "present", "click_raises"}
             /\ x.buttons[1] \in {"absent", OFProfile}
             /\ \A i \in 2..Len(x.buttons) : x.buttons[i] = "absent"}
    ELSE {x \in ElementScripts : ~x.count_raises /\ x.elems = <<>>}

ShortGraphs ==
    {g \in RedirectGraphs :
        /\ g["go"] = [kind |-> "response", status |-> 302, location |-> ShortLink]
        /\ g["short"] \in {[kind |-> "response", status |-> 302, location |-> OFProfile],
                           [kind |-> "raise", status |-> 0, location |-> NoLocation]}}

\* self.results of the detector call c runs on, and the dict it names now.
Cur(c) ==
    detectors[self[c]].results

Rec(c) ==
    heap[Cur(c)]

Put(s, i, x) ==
    IF i <= Len(s) THEN [s EXCEPT ![i] = x] ELSE Append(s, x)

\* One detector serving every call.
SharedDetectorId(ds) ==
    1

\* detector = OnlyFansDetector(headless=headless): a new instance per call.
NewDetectorId(ds) ==
    Len(ds) + 1

\* A detect_onlyfans that leaves self.results as it finds it.
KeepResults(old, new) ==
    old

\* self.results = {...}: the attribute is rebound to the new dict.
BindResults(old, new) ==
    new

TypeOK ==
    /\ \A r \in DOMAIN heap : DOMAIN heap[r] = Fields
    /\ pc \in [Calls -> {"Idle", "DirectScan", "InteractiveAnalysis", "RedirectProbe",
                         "Done", "Raised"}]
    /\ at \in [Calls -> {"none", "get", "launch", "new_page", "goto", "extract", "clicks", "head"}]
    /\ \A b \in DOMAIN browsers : browsers[b] \in {"open", "closed"}

InitCalls ==
    /\ heap = <<>>
    /\ detectors = <<>>
    /\ browsers = <<>>
    /\ pc = [c \in Calls |-> "Idle"]
    /\ at = [c \in Calls |-> "none"]
    /\ self = [c \in Calls |-> 0]
    /\ bio_link = [c \in Calls |-> ""]
    /\ returned = [c \in Calls |-> 0]
    /\ browser = [c \in Calls |-> 0]
    /\ onlyfans_redirects = [c \in Calls |-> <<>>]
    /\ all_links = [c \in Calls |-> <<>>]
    /\ mock = [c \in Calls |-> <<>>]
    /\ trail = [c \in Calls |-> <<>>]

\* No _follow_redirects call on its own.
NoFollow ==
    [url |-> "", graph |-> <<>>, hops |-> 0, result |-> <<>>]

\* No strategy or helper call on its own.
NoUnit ==
    [op |-> "none", args |-> <<>>, result |-> <<>>]

\* No request in hand.
NoApi ==
    [route |-> "none", kind |-> "none", value |-> <<>>, i |-> 0, detections |-> <<>>,
     results |-> <<>>, response |-> <<>>]

Init ==
    /\ InitCalls
    /\ follow = NoFollow
    /\ unit = NoUnit
    /\ api = NoApi
    /\ world = World(TRUE, FALSE)

InitService ==
    /\ InitCalls
    /\ follow = NoFollow
    /\ unit = NoUnit
    /\ api = NoApi
    /\ world = World(FALSE, FALSE)

InitStatic ==
    /\ InitCalls
    /\ follow = NoFollow
    /\ unit = NoUnit
    /\ api = NoApi
    /\ world = World(FALSE, TRUE)

\* The URLs _follow_redirects is called with: a link of the page, joined.
FollowStarts ==
    {ShortLink, OtherOrigin \o GoOf, OFProfile, OFPublic}

\* A _follow_redirects call about to be made: its url, the redirect graph its
\* HEAD requests will walk, and its max_redirects.
InitFollow ==
    /\ InitCalls
    /\ world = World(TRUE, FALSE)
    /\ unit = NoUnit
    /\ api = NoApi
    /\ follow \in [url : FollowStarts, graph : RedirectGraphs, hops : 0..max_redirects,
                   result : {<<>>}]

\* Calls are numbered in the order they start.
MayStart(c) ==
    /\ pc[c] = "Idle"
    /\ \A k \in Calls : k < c => pc[k] # "Idle"

\* detect_onlyfans_in_bio_link(bio_link): a detector is constructed
\* (__init__ allocates its first dict) and detect_onlyfans runs on it up to
\* its first suspension point, the GET of _check_direct_links.
DetectOnlyfansInBioLink(c) ==
    /\ MayStart(c)
    /\ \E link \in Offered(BioLinks, ShortBios) :
         /\ Scripted("bio", link)
         /\ bio_link' = [bio_link EXCEPT ![c] = link]
         /\ world' = Remember(world, "bio", link)
    /\ LET d == NewDetectorId(detectors)
       IN  /\ heap' = heap \o <<FreshRecord, FreshRecord>>
           /\ detectors' = Put(detectors, d,
                               [results |-> BindResults(Len(heap) + 1, Len(heap) + 2)])
           /\ self' = [self EXCEPT ![c] = d]
    /\ pc' = [pc EXCEPT ![c] = "DirectScan"]
    /\ at' = [at EXCEPT ![c] = FirstAwait("DirectScan")]
    /\ UNCHANGED <<browsers, returned, browser, onlyfans_redirects, all_links, mock, trail,
                   follow, unit, api>>

\* OnlyFansDetector(): __init__ alone, for a client that keeps the instance.
NewDetector ==
    /\ detectors = <<>>
    /\ heap' = Append(heap, FreshRecord)
    /\ detectors' = Append(detectors, [results |-> Len(heap) + 1])
    /\ UNCHANGED <<browsers, pc, at, self, bio_link, returned, browser,
                   onlyfans_redirects, all_links, mock, trail, follow, unit, api, world>>

\* detector.detect_onlyfans(bio_link) on a kept instance, once its earlier
\* call has returned: the record is reset, then the first strategy starts.
DetectOnlyfans(c) ==
    /\ MayStart(c)
    /\ \A k \in Calls : k < c => pc[k] \in {"Done", "Raised"}
    /\ \E d \in DOMAIN detectors :
         /\ heap' = Append(heap, FreshRecord)
         /\ detectors' = [detectors EXCEPT ![d].results = BindResults(@, Len(heap) + 1)]
         /\ self' = [self EXCEPT ![c] = d]
    /\ \E link \in Offered(BioLinks, ShortBios) :
         /\ Scripted("bio", link)
         /\ bio_link' = [bio_link EXCEPT ![c] = link]
         /\ world' = Remember(world, "bio", link)
    /\ pc' = [pc EXCEPT ![c] = "DirectScan"]
    /\ at' = [at EXCEPT ![c] = FirstAwait("DirectScan")]
    /\ UNCHANGED <<browsers, returned, browser, onlyfans_redirects, all_links, mock, trail,
                   follow, unit, api>>

ResultOf(out) ==
    IF out.exc # NoExc THEN "raised" ELSE IF out.found THEN "found" ELSE "not_found"

\* detect_onlyfans, from the return of strategy `state` with outcome `out` to
\* its next suspension point or its own return: an escaped exception is
\* caught by its `except Exception` ("Detection failed"), a found result is
\* returned at once, and otherwise the next strategy starts.
StrategyReturns(c, state, out) ==
    LET caught == out.exc # NoExc /\ Catches(out.exc)
        escaped == out.exc # NoExc /\ ~Catches(out.exc)
        next == IF escaped THEN "Raised"
                ELSE IF caught THEN "Done" ELSE NextState(state, out.found)
    IN  /\ heap' = [heap EXCEPT ![Cur(c)] =
                       IF caught THEN AppendError(out.rec, "Detection failed") ELSE out.rec]
        /\ pc' = [pc EXCEPT ![c] = next]
        /\ at' = [at EXCEPT ![c] = FirstAwait(next)]
        /\ returned' = [returned EXCEPT ![c] = IF next = "Done" THEN Cur(c) ELSE @]
        /\ trail' = [trail EXCEPT ![c] = Append(@, <<state, ResultOf(out)>>)]

\* The strategy goes on to its next suspension point.
StrategyGoesOn(c, rec, next_at) ==
    /\ heap' = [heap EXCEPT ![Cur(c)] = rec]
    /\ at' = [at EXCEPT ![c] = next_at]
    /\ UNCHANGED <<pc, returned, trail>>

Called(c, op, outcome) ==
    mock' = [mock EXCEPT ![c] = Append(@, <<op, outcome>>)]

\* ------------------------------------------------------ strategy steps
\* _check_direct_links: the GET answers, and the strategy runs to its return.
DirectScan(c) ==
    /\ pc[c] = "DirectScan"
    /\ at[c] = "get"
    /\ \E resp \in Offered(GetResponses, ShortGets) :
         /\ Scripted("get", resp)
         /\ StrategyReturns(c, "DirectScan", CheckDirectLinks(Rec(c), resp))
         /\ Called(c, "GET", GetClass(resp))
         /\ world' = Remember(world, "get", resp)
    /\ UNCHANGED <<follow, unit, api, detectors, browsers, self, bio_link, browser, onlyfans_redirects,
                   all_links>>

\* An exception inside the `try` around the page work: the inner handler
\* ("Interactive page check failed"), then, were it not caught there, the
\* outer one ("Playwright setup failed").
PageWorkRaises(rec, exc) ==
    LET inner == Handled(rec, exc, "Interactive page check failed")
    IN  IF inner.exc # NoExc
        THEN Handled(inner.rec, inner.exc, "Playwright setup failed")
        ELSE inner

\* _check_interactive_page: async_playwright() starts and chromium.launch()
\* answers. A failure of either is caught by the outer handler.
Launch(c) ==
    /\ pc[c] = "InteractiveAnalysis"
    /\ at[c] = "launch"
    /\ \E r \in Offered({"ok", "start_raises", "launch_raises"}, {"ok", "launch_raises"}) :
         /\ Scripted("launch", r)
         /\ world' = Remember(world, "launch", r)
         /\ Called(c, "launch", IF r = "ok" THEN "ok" ELSE "raised")
         /\ IF r = "ok"
            THEN /\ browsers' = Append(browsers, "open")
                 /\ browser' = [browser EXCEPT ![c] = Len(browsers) + 1]
                 /\ StrategyGoesOn(c, Rec(c), "new_page")
            ELSE /\ StrategyReturns(c, "InteractiveAnalysis",
                                    Handled(Rec(c), "PlaywrightError", "Playwright setup failed"))
                 /\ UNCHANGED <<browsers, browser>>
    /\ UNCHANGED <<follow, unit, api, detectors, self, bio_link, onlyfans_redirects, all_links>>

\* browser.new_context() and context.new_page() answer. They stand before
\* the inner try/finally: a failure leaves through the `async with` alone.
NewPage(c) ==
    /\ pc[c] = "InteractiveAnalysis"
    /\ at[c] = "new_page"
    /\ \E r \in Offered({"ok", "raises"}, {"ok"}) :
         /\ Scripted("new_page", r)
         /\ world' = Remember(world, "new_page", r)
         /\ IF r = "ok"
            THEN /\ StrategyGoesOn(c, Rec(c), "goto")
                 /\ UNCHANGED browsers
            ELSE /\ StrategyReturns(c, "InteractiveAnalysis",
                                    Handled(Rec(c), "PlaywrightError", "Playwright setup failed"))
                 /\ browsers' = [browsers EXCEPT ![browser[c]] = PlaywrightExit(@)]
    /\ UNCHANGED <<follow, unit, api, detectors, self, bio_link, browser, onlyfans_redirects, all_links, mock>>

\* handle_response, the listener registered by page.on('response', ...):
\* it runs for a response that arrives while the call is suspended in a page
\* operation. A static page sends its responses while it loads, the same
\* ones at every load.
IsPrefix(s, t) ==
    /\ Len(s) <= Len(t)
    /\ \A i \in DOMAIN s : s[i] = t[i]

HandleResponse(c) ==
    /\ pc[c] = "InteractiveAnalysis"
    /\ at[c] \in (IF world.static THEN {"goto"} ELSE {"goto", "extract", "clicks"})
    /\ Len(onlyfans_redirects[c]) < MaxObserved
    /\ \E response \in Offered(ObservedResponses, ShortObserved) :
         LET heard == HandleResponses(onlyfans_redirects[c], <<response>>)
         IN  /\ world.static /\ world.memo["observed"] # <<>> =>
                   IsPrefix(heard, world.memo["observed"][1])
             /\ onlyfans_redirects' = [onlyfans_redirects EXCEPT ![c] = heard]
    /\ UNCHANGED <<heap, detectors, browsers, pc, at, self, bio_link, returned, browser,
                   all_links, mock, trail, follow, unit, api, world>>

\* page.goto() answers, then the settle wait and the best-effort cookie
\* click, whose failures the bare `except: pass` discards.
Navigate(c) ==
    /\ pc[c] = "InteractiveAnalysis"
    /\ at[c] = "goto"
    /\ Scripted("observed", onlyfans_redirects[c])
    /\ \E r \in {"ok", "raises"} :
         /\ Scripted("goto", r)
         /\ world' = Remember(Remember(world, "goto", r), "observed", onlyfans_redirects[c])
         /\ Called(c, "goto", IF r = "ok" THEN "ok" ELSE "raised")
         /\ IF r = "ok"
            THEN /\ StrategyGoesOn(c, Rec(c), "extract")
                 /\ UNCHANGED <<browsers, onlyfans_redirects>>
            ELSE /\ StrategyReturns(c, "InteractiveAnalysis",
                                    PageWorkRaises(Rec(c), "PlaywrightTimeoutError"))
                 /\ onlyfans_redirects' = [onlyfans_redirects EXCEPT ![c] = <<>>]
                 /\ browsers' = [browsers EXCEPT ![browser[c]] =
                                    PlaywrightExit(BrowserClose(@))]
    /\ UNCHANGED <<follow, unit, api, detectors, self, bio_link, browser, all_links>>

\* Lines 142-146 alone: the captured redirects are never read.
ClicksOutcomeWithoutCapture(rec, base_url, script, redirects) ==
    LET clicks == TryInteractiveClicks(rec, base_url, script)
    IN  IF clicks.exc # NoExc
        THEN PageWorkRaises(clicks.rec, clicks.exc)
        ELSE clicks

\* Lines 142-154: the click strategy, then the captured redirects.
ClicksOutcome(rec, base_url, script, redirects) ==
    LET clicks == TryInteractiveClicks(rec, base_url, script)
    IN  IF clicks.exc # NoExc
        THEN PageWorkRaises(clicks.rec, clicks.exc)
        ELSE IF clicks.found
             THEN clicks
             ELSE IF redirects # <<>>
                  THEN Outcome(MarkFound(clicks.rec, redirects, "redirect_capture",
                                         "Captured OnlyFans redirects"),
                               TRUE, NoExc)
                  ELSE Outcome(clicks.rec, FALSE, NoExc)

\* Lines 129-140: the Link Extractor runs and its links are tested.
ExtractOutcome(rec, page, seed, base_url) ==
    LET ex == ExtractAllLinks(rec, page, base_url)
        of_links == OfLinks(ListOfSet(ex.links, seed))
    IN  IF ex.out.exc # NoExc
        THEN PageWorkRaises(ex.out.rec, ex.out.exc)
        ELSE IF of_links # <<>>
             THEN Outcome(MarkFound(ex.out.rec, of_links, "interactive_link_extraction",
                                    "Found OnlyFans links via interactive extraction"),
                          TRUE, NoExc)
             ELSE Outcome(ex.out.rec, FALSE, NoExc)

\* The page no click recipe reads: _try_interactive_clicks awaits nothing.
NoScript ==
    [count_raises |-> FALSE, elems |-> <<>>]

\* _extract_all_links answers. On a platform with a click recipe the strategy
\* suspends next in the recipe; on any other _try_interactive_clicks returns
\* at once and the strategy runs to its return.
Extract(c) ==
    /\ pc[c] = "InteractiveAnalysis"
    /\ at[c] = "extract"
    /\ \E page \in Offered(Pages, ShortPages), seed \in Offered(HashSeeds, {"up"}) :
         /\ Scripted("page", page)
         /\ Scripted("seed", seed)
         /\ world' = Remember(Remember(world, "page", page), "seed", seed)
         /\ LET out == ExtractOutcome(Rec(c), page, seed, bio_link[c])
                ends == out.found \/ out.exc # NoExc
            IN  IF ends \/ Platform(bio_link[c]) = "none"
                THEN /\ StrategyReturns(c, "InteractiveAnalysis",
                                        IF ends THEN out
                                        ELSE ClicksOutcome(out.rec, bio_link[c], NoScript,
                                                           onlyfans_redirects[c]))
                     /\ onlyfans_redirects' = [onlyfans_redirects EXCEPT ![c] = <<>>]
                     /\ browsers' = [browsers EXCEPT ![browser[c]] =
                                        PlaywrightExit(BrowserClose(@))]
                ELSE /\ StrategyGoesOn(c, out.rec, "clicks")
                     /\ UNCHANGED <<browsers, onlyfans_redirects>>
    /\ UNCHANGED <<follow, unit, api, detectors, self, bio_link, browser, all_links, mock>>

\* The click recipe of the platform answers, the captured redirects are read
\* and the browser is closed.
Clicks(c) ==
    /\ pc[c] = "InteractiveAnalysis"
    /\ at[c] = "clicks"
    /\ \E script \in Offered(ClickScripts(bio_link[c]), ShortScripts(bio_link[c])) :
         /\ Scripted("script", script)
         /\ world' = Remember(world, "script", script)
         /\ StrategyReturns(c, "InteractiveAnalysis",
                            ClicksOutcome(Rec(c), bio_link[c], script, onlyfans_redirects[c]))
    /\ onlyfans_redirects' = [onlyfans_redirects EXCEPT ![c] = <<>>]
    /\ browsers' = [browsers EXCEPT ![browser[c]] = PlaywrightExit(BrowserClose(@))]
    /\ UNCHANGED <<follow, unit, api, detectors, self, bio_link, browser, all_links, mock>>

\* The links the probe loop will not skip.
Followed(links) ==
    SelectSeq(links, LAMBDA l : ~ProbeSkips(l))

\* _check_redirect_chains: the GET answers. With a link to follow the
\* strategy suspends in its first HEAD; without one it returns.
ProbeGet(c) ==
    /\ pc[c] = "RedirectProbe"
    /\ at[c] = "get"
    /\ \E resp \in Offered(GetResponses, ShortGets) :
         /\ Scripted("get", resp)
         /\ world' = Remember(world, "get", resp)
         /\ Called(c, "GET", GetClass(resp))
         /\ LET links == Prefix(resp.markup.hrefs \o resp.markup.dataurls, LinkCap)
            IN  IF resp.kind = "response" /\ resp.status = 200 /\ Followed(links) # <<>>
                THEN /\ StrategyGoesOn(c, Rec(c), "head")
                     /\ all_links' = [all_links EXCEPT ![c] = Followed(links)]
                ELSE /\ StrategyReturns(c, "RedirectProbe",
                                        CheckRedirectChains(Rec(c), resp,
                                                            CHOOSE g \in RedirectGraphs : TRUE,
                                                            bio_link[c]))
                     /\ UNCHANGED all_links
    /\ UNCHANGED <<follow, unit, api, detectors, browsers, self, bio_link, browser, onlyfans_redirects>>

\* The HEAD requests answer along a redirect graph and the loop over the
\* links runs to the strategy's return.
ProbeFollow(c) ==
    /\ pc[c] = "RedirectProbe"
    /\ at[c] = "head"
    /\ \E graph \in Offered(RedirectGraphs, ShortGraphs) :
         /\ Scripted("graph", graph)
         /\ world' = Remember(world, "graph", graph)
         /\ StrategyReturns(c, "RedirectProbe",
                            ProbeLinks(Rec(c), all_links[c], 1, graph, bio_link[c]))
    /\ all_links' = [all_links EXCEPT ![c] = <<>>]
    /\ UNCHANGED <<follow, unit, api, detectors, browsers, self, bio_link, browser, onlyfans_redirects, mock>>

Step(c) ==
    \/ DirectScan(c)
    \/ Launch(c)
    \/ NewPage(c)
    \/ HandleResponse(c)
    \/ Navigate(c)
    \/ Extract(c)
    \/ Clicks(c)
    \/ ProbeGet(c)
    \/ ProbeFollow(c)

\* One call of the entry point, the collaborators answering from their full
\* repertoire.
Next ==
    DetectOnlyfansInBioLink(1) \/ Step(1)

Spec ==
    Init /\ [][Next]_vars

\* The service: every call goes through detect_onlyfans_in_bio_link, and
\* the calls interleave at their suspension points.
NextService ==
    \E c \in Calls : DetectOnlyfansInBioLink(c) \/ Step(c)

SpecService ==
    InitService /\ [][NextService]_vars

\* The entry point called once an earlier call has returned.
DetectAgainInBioLink(c) ==
    /\ \A k \in Calls : k < c => pc[k] \in {"Done", "Raised"}
    /\ DetectOnlyfansInBioLink(c)

\* A client that calls twice in a row, through the entry point or on one
\* detector it keeps, against a static page.
NextReuse ==
    \/ NewDetector
    \/ \E c \in Calls : DetectOnlyfans(c) \/ DetectAgainInBioLink(c) \/ Step(c)

SpecReuse ==
    InitStatic /\ [][NextReuse]_vars

\* await self._follow_redirects(client, url, max_redirects), run to its return.
FollowRedirectsCall ==
    /\ follow.result = <<>>
    /\ follow' = [follow EXCEPT !.result =
                     <<FollowRedirects(follow.graph, follow.url, follow.hops)>>]
    /\ UNCHANGED <<heap, detectors, browsers, pc, at, self, bio_link, returned, browser,
                   onlyfans_redirects, all_links, mock, trail, unit, api, world>>

NextFollow ==
    FollowRedirectsCall

\* The Redirect Follower alone, over every start URL, redirect graph and bound.
SpecFollow ==
    InitFollow /\ [][NextFollow]_vars

\* Everything but `unit`.
AllButUnit ==
    <<heap, detectors, browsers, pc, at, self, bio_link, returned, browser,
      onlyfans_redirects, all_links, mock, trail, follow, api, world>>

\* await self._check_direct_links(bio_link), run to its return.
CheckDirectLinksCall ==
    /\ unit.op = "direct"
    /\ unit.result = <<>>
    /\ unit' = [unit EXCEPT !.result = <<CheckDirectLinks(FreshRecord, unit.args[1])>>]
    /\ UNCHANGED AllButUnit

\* Raw markups longer than the probe's cap: all_links[:20] cuts them.
\* LinkCap - 1 or LinkCap copies of one link, then at most one more href and
\* at most one data-url.
LongMarkups ==
    {[hrefs |-> [i \in 1..k |-> pad] \o t, dataurls |-> d] :
        k \in {LinkCap - 1, LinkCap}, pad \in {GoOf, Anchor},
        t \in SeqUpTo(LinkValues, 1), d \in SeqUpTo(LinkValues, 1)}

\* await self._check_redirect_chains(bio_link), run to its return.
CheckRedirectChainsCall ==
    /\ unit.op = "probe"
    /\ unit.result = <<>>
    /\ unit' = [unit EXCEPT !.result =
                   <<CheckRedirectChains(FreshRecord, unit.args[1], unit.args[2], unit.args[3])>>]
    /\ UNCHANGED AllButUnit

\* await self._try_interactive_clicks(page, base_url), run to its return.
TryInteractiveClicksCall ==
    /\ unit.op = "clicks"
    /\ unit.result = <<>>
    /\ unit' = [unit EXCEPT !.result =
                   <<TryInteractiveClicks(FreshRecord, unit.args[1], unit.args[2])>>]
    /\ UNCHANGED AllButUnit

\* await self._extract_all_links(page, base_url), run to its return.
ExtractAllLinksCall ==
    /\ unit.op = "extract"
    /\ unit.result = <<>>
    /\ unit' = [unit EXCEPT !.result =
                   <<ExtractAllLinks(FreshRecord, unit.args[1], unit.args[2])>>]
    /\ UNCHANGED AllButUnit

\* The calls about to be made. DirectScan: the response of its GET. The
\* probe: that response, the redirect graph its HEAD requests walk and the
\* bio link. The click dispatch: the bio link and what the page's elements
\* do. The Link Extractor: the rendered page and the bio link.
InitUnit ==
    /\ InitCalls
    /\ follow = NoFollow
    /\ api = NoApi
    /\ world = World(TRUE, FALSE)
    /\ unit \in [op : {"direct"}, args : {<<resp>> : resp \in GetResponses}, result : {<<>>}]
             \cup [op : {"probe"},
                   args : (GetResponses
                           \cup {[kind |-> "response", exc |-> NoExc, status |-> 200,
                                   markup |-> m] : m \in LongMarkups})
                          \X RedirectGraphs \X {OtherOrigin \o "/u"},
                   result : {<<>>}]
             \cup UNION {[op : {"clicks"}, args : {base_url} \X ClickScripts(base_url),
                          result : {<<>>}] : base_url \in BioLinks}
             \cup [op : {"extract"}, args : Pages \X {OtherOrigin \o "/u"}, result : {<<>>}]

\* Each strategy alone on a fresh detector, over every answer of its
\* collaborators.
SpecUnit ==
    InitUnit /\ [][CheckDirectLinksCall \/ CheckRedirectChainsCall \/ TryInteractiveClicksCall
                   \/ ExtractAllLinksCall]_vars

\* ------------------------------------------------------------ api_server
\* if len(bio_links) > 10
BatchCap == 10

\* The values a client can send as a bio link: two URLs, the empty string,
\* a string that is no URL, and JSON null.
SentValues ==
    <<LinkmeOrigin \o "/u", "", OtherOrigin \o "/u", "not a url", NoneVal>>

\* asyncio.run(detect_onlyfans_in_bio_link(bio_link, headless)), imported
\* from onlyfans_detector_v2: it returns a result dict or raises.
DetectionOutcomes ==
    {"found", "not_found", "raised"}

\* What request.get_json() / request.args hold. kind: the body is no JSON
\* (get_json raises BadRequest), is null, is {}, is a dict without the key,
\* or holds the key with a scalar or with a list; value: the scalar or the list.
ApiRequests ==
    [route : {"POST /detect"}, kind : {"bad_json", "null", "empty", "no_key"}, value : {<<>>}]
    \cup [route : {"POST /detect"}, kind : {"scalar"}, value : {<<v>> : v \in Range(SentValues)}]
    \cup [route : {"GET /detect"}, kind : {"no_key"}, value : {<<>>}]
    \cup [route : {"GET /detect"}, kind : {"scalar"},
          value : {<<v>> : v \in Range(SentValues) \ {NoneVal}}]
    \cup [route : {"POST /batch"}, kind : {"bad_json", "null", "empty", "no_key"}, value : {<<>>}]
    \cup [route : {"POST /batch"}, kind : {"scalar"}, value : {<<LinkmeOrigin \o "/u">>}]
    \cup [route : {"POST /batch"}, kind : {"list"},
          value : {[k \in 1..n |-> SentValues[((k + s) % Len(SentValues)) + 1]] :
                      n \in 0..(BatchCap + 1), s \in 0..1}]

\* return jsonify({"error": ...}), status
ErrorResponse(status, error) ==
    [status |-> status, error |-> error, payload |-> <<>>]

\* The loop body with a failed item left out of results.
BatchAppendDropsFailed(results, link, outcome) ==
    IF outcome = "raised"
    THEN results
    ELSE Append(results, [bio_link |-> link, has_onlyfans |-> outcome = "found", error |-> <<>>])

\* try: result = asyncio.run(...); result['bio_link'] = bio_link;
\*      results.append(result)
\* except Exception as e: results.append({"bio_link", "has_onlyfans": False, "error"})
BatchAppend(results, link, outcome) ==
    Append(results,
           IF outcome = "raised"
           THEN [bio_link |-> link, has_onlyfans |-> FALSE, error |-> <<"raised">>]
           ELSE [bio_link |-> link, has_onlyfans |-> outcome = "found", error |-> <<>>])

\* One detection endpoint answers: validation (400), then the detection call
\* and its result (200) or the handler's except Exception (500).
Answer(passes) ==
    IF api.kind = "bad_json"
    THEN api' = [api EXCEPT !.response = <<ErrorResponse(500, "Detection failed")>>]
    ELSE IF ~passes
         THEN api' = [api EXCEPT !.response = <<ErrorResponse(400, "Missing bio_link parameter")>>]
         ELSE \E outcome \in DetectionOutcomes :
                api' = [api EXCEPT
                          !.detections = <<[bio_link |-> api.value[1], outcome |-> outcome]>>,
                          !.response =
                             IF outcome = "raised"
                             THEN <<ErrorResponse(500, "Detection failed")>>
                             ELSE <<[status |-> 200, error |-> "",
                                     payload |-> BatchAppend(<<>>, api.value[1], outcome)]>>]

\* POST /detect: if not data or 'bio_link' not in data -> 400
PostDetect ==
    /\ api.route = "POST /detect" /\ api.i = 0 /\ api.response = <<>>
    /\ Answer(api.kind = "scalar")
    /\ UNCHANGED <<heap, detectors, browsers, pc, at, self, bio_link, returned, browser,
                   onlyfans_redirects, all_links, mock, trail, follow, unit, world>>

\* GET /detect: if not bio_link -> 400
GetDetect ==
    /\ api.route = "GET /detect" /\ api.i = 0 /\ api.response = <<>>
    /\ Answer(api.kind = "scalar" /\ api.value[1] # "")
    /\ UNCHANGED <<heap, detectors, browsers, pc, at, self, bio_link, returned, browser,
                   onlyfans_redirects, all_links, mock, trail, follow, unit, world>>

\* POST /batch up to its loop: the three 400 answers, or the loop starts.
BatchDetect ==
    /\ api.route = "POST /batch" /\ api.i = 0 /\ api.response = <<>>
    /\ api' = IF api.kind = "bad_json"
              THEN [api EXCEPT !.response = <<ErrorResponse(500, "Batch detection failed")>>]
              ELSE IF api.kind \in {"null", "empty", "no_key"}
              THEN [api EXCEPT !.response = <<ErrorResponse(400, "Missing bio_links parameter")>>]
              ELSE IF api.kind # "list" \/ Len(api.value) = 0
              THEN [api EXCEPT !.response =
                       <<ErrorResponse(400, "bio_links must be a non-empty array")>>]
              ELSE IF Len(api.value) > BatchCap
              THEN [api EXCEPT !.response =
                       <<ErrorResponse(400, "Maximum 10 bio links per batch")>>]
              ELSE [api EXCEPT !.i = 1]
    /\ UNCHANGED <<heap, detectors, browsers, pc, at, self, bio_link, returned, browser,
                   onlyfans_redirects, all_links, mock, trail, follow, unit, world>>

\* for bio_link in bio_links: one iteration; after the last one the handler
\* answers with batch_results.
BatchItem ==
    /\ api.route = "POST /batch"
    /\ api.i > 0
    /\ api.response = <<>>
    /\ \E outcome \in DetectionOutcomes :
         LET link == api.value[api.i]
             results == BatchAppend(api.results, link, outcome)
         IN  api' = [api EXCEPT
                       !.detections = Append(@, [bio_link |-> link, outcome |-> outcome]),
                       !.results = results,
                       !.i = IF api.i = Len(api.value) THEN 0 ELSE api.i + 1,
                       !.response = IF api.i = Len(api.value)
                                    THEN <<[status |-> 200, error |-> "", payload |-> results]>>
                                    ELSE <<>>]
    /\ UNCHANGED <<heap, detectors, browsers, pc, at, self, bio_link, returned, browser,
                   onlyfans_redirects, all_links, mock, trail, follow, unit, world>>

\* A request about to be handled.
InitApi ==
    /\ InitCalls
    /\ follow = NoFollow
    /\ unit = NoUnit
    /\ world = World(TRUE, FALSE)
    /\ \E r \in ApiRequests :
         api = [route |-> r.route, kind |-> r.kind, value |-> r.value, i |-> 0,
                detections |-> <<>>, results |-> <<>>, response |-> <<>>]

\* The Flask service answering one request, over every request and every
\* outcome of the detections it runs.
SpecApi ==
    /\ InitApi
    /\ [][PostDetect \/ GetDetect \/ BatchDetect \/ BatchItem]_vars

\* ------------------------------------------------------------ properties
Last(s) ==
    s[Len(s)]

\* The calls of `op` in the log of call c, and those of them that raised.
CallsOf(c, op) ==
    SelectSeq(mock[c], LAMBDA e : e[1] = op)

Raised(c) ==
    SelectSeq(mock[c], LAMBDA e : e[2] = "raised")

\* C1: in every result record, returned or still being filled between two
\* strategy calls, has_onlyfans is true iff onlyfans_urls is non-empty iff
\* detection_method is set, whatever the collaborators answered.
C1_FoundIffUrlsIffMethod ==
    \A r \in DOMAIN heap :
        /\ heap[r].has_onlyfans <=> heap[r].onlyfans_urls # <<>>
        /\ heap[r].has_onlyfans <=> heap[r].detection_method # NoneVal

\* A call that returned a positive record after an earlier strategy failed.
C1_Witness ==
    \E c \in Calls :
        /\ pc[c] = "Done"
        /\ heap[returned[c]].has_onlyfans
        /\ heap[returned[c]].onlyfans_urls # <<>>
        /\ heap[returned[c]].detection_method # NoneVal
        /\ heap[returned[c]].errors # <<>>

\* C2: every URL a strategy places in onlyfans_urls matches the target
\* signature and contains neither '/files' nor '/public'.
C2_ReportedUrlsPassFilter ==
    \A r \in DOMAIN heap :
        \A i \in DOMAIN heap[r].onlyfans_urls :
            /\ MatchesTarget(heap[r].onlyfans_urls[i])
            /\ ~IsExcluded(heap[r].onlyfans_urls[i])

\* C3: once a strategy has set has_onlyfans, no later strategy executes in
\* the call; when the direct scan succeeds the call has made one GET, has
\* launched no browser and has run no other strategy.
C3_ShortCircuit ==
    \A c \in Calls :
        /\ self[c] # 0 /\ Rec(c).has_onlyfans => pc[c] = "Done" /\ at[c] = "none"
        /\ \A i \in DOMAIN trail[c] : trail[c][i][2] = "found" => i = Len(trail[c])
        /\ trail[c] # <<>> /\ trail[c][1] = <<"DirectScan", "found">> =>
              /\ trail[c] = <<<<"DirectScan", "found">>>>
              /\ mock[c] = <<<<"GET", "200">>>>
              /\ browser[c] = 0

\* The direct scan succeeded and the call has returned.
C3_Witness ==
    \E c \in Calls :
        /\ pc[c] = "Done"
        /\ trail[c] # <<>>
        /\ trail[c][1] = <<"DirectScan", "found">>
        /\ heap[returned[c]].detection_method = "direct_html_scan"

\* C4: the orchestrator of a call moves only forward through Idle,
\* DirectScan, InteractiveAnalysis, RedirectProbe, Done: a strategy starts
\* only when the one before it has returned not-found, none runs twice and
\* no state is re-entered.
C4_ForwardOnly ==
    [][\A c \in Calls :
          /\ pc'[c] # pc[c] =>
                \/ pc[c] = "Idle" /\ pc'[c] = "DirectScan"
                \/ /\ pc[c] = "DirectScan"
                   /\ pc'[c] = "InteractiveAnalysis"
                   /\ Last(trail'[c]) = <<"DirectScan", "not_found">>
                \/ /\ pc[c] = "InteractiveAnalysis"
                   /\ pc'[c] = "RedirectProbe"
                   /\ Last(trail'[c]) = <<"InteractiveAnalysis", "not_found">>
                \/ /\ pc[c] \in {"DirectScan", "InteractiveAnalysis", "RedirectProbe"}
                   /\ pc'[c] = "Done"
          /\ \A i, j \in DOMAIN trail'[c] : i < j =>
                <<trail'[c][i][1], trail'[c][j][1]>> \in
                    {<<"DirectScan", "InteractiveAnalysis">>,
                     <<"DirectScan", "RedirectProbe">>,
                     <<"InteractiveAnalysis", "RedirectProbe">>}]_vars

\* The three strategies ran, each after the failure of the one before.
C4_Witness ==
    \E c \in Calls :
        /\ pc[c] = "Done"
        /\ trail[c] = <<<<"DirectScan", "not_found">>,
                        <<"InteractiveAnalysis", "not_found">>,
                        <<"RedirectProbe", "not_found">>>>

\* C5: detect_onlyfans never raises, whatever its collaborators raise or
\* answer; it returns a record with the five fields, and a collaborator
\* failure shows as an entry of errors.
C5_NeverRaises ==
    \A c \in Calls :
        /\ pc[c] # "Raised"
        /\ self[c] # 0 => Len(Raised(c)) <= Len(Rec(c).errors)
        /\ pc[c] = "Done" =>
              /\ returned[c] \in DOMAIN heap
              /\ DOMAIN heap[returned[c]] =
                    {"has_onlyfans", "onlyfans_urls", "detection_method", "errors",
                     "debug_info"}
              /\ heap[returned[c]].has_onlyfans \in BOOLEAN
              /\ heap[returned[c]].errors \in Seq(STRING)

\* A call that returned after its HTTP client and its browser both failed.
C5_Witness ==
    \E c \in Calls :
        /\ pc[c] = "Done"
        /\ mock[c] = <<<<"GET", "raised">>, <<"launch", "raised">>, <<"GET", "raised">>>>
        /\ Len(heap[returned[c]].errors) = 3

C7_FollowerBounded ==
    follow.result # <<>> =>
        LET r == follow.result[1]
        IN  /\ r.heads <= follow.hops
            /\ r.chain[1] = follow.url
            /\ r.current = Last(r.chain)
            /\ Len(r.chain) <= r.heads + 1
            /\ r.heads = follow.hops /\ ~r.stop /\ follow.hops > 0 =>
                  LET before == r.chain[Len(r.chain) - 1]
                  IN  r.current = UrlJoin(before, HeadOf(follow.graph, before).location)

\* A redirect cycle followed with the default bound and cut by it.
C7_Witness ==
    /\ follow.result # <<>>
    /\ follow.hops = max_redirects
    /\ follow.result[1].heads = max_redirects
    /\ ~follow.result[1].stop
    /\ Len(follow.result[1].chain) = max_redirects + 1

\* C8: when the GET of the direct scan, the navigation of the browser and
\* the GET of the probe all fail, detect_onlyfans returns has_onlyfans false
\* with exactly three errors, one per strategy in the order the strategies
\* ran, and raises nothing.
C8_ThreeErrors ==
    \A c \in Calls :
        mock[c] = <<<<"GET", "raised">>, <<"launch", "ok">>, <<"goto", "raised">>,
                    <<"GET", "raised">>>> =>
            /\ pc[c] = "Done"
            /\ ~heap[returned[c]].has_onlyfans
            /\ heap[returned[c]].errors = <<"Direct link check failed",
                                            "Interactive page check failed",
                                            "Redirect chain check failed">>

\* The three fetches of a call have failed and the call has returned.
C8_Witness ==
    \E c \in Calls :
        /\ pc[c] = "Done"
        /\ mock[c] = <<<<"GET", "raised">>, <<"launch", "ok">>, <<"goto", "raised">>,
                       <<"GET", "raised">>>>
        /\ trail[c] = <<<<"DirectScan", "not_found">>,
                        <<"InteractiveAnalysis", "not_found">>,
                        <<"RedirectProbe", "not_found">>>>

\* C9: calls of the entry point that interleave at their suspension points
\* each work on a detector, a record and a browser of their own; the record
\* of a call shows the outcome of its own strategies only, and a record a
\* call has returned is not written again.
C9_Isolation ==
    /\ [](\A c \in Calls : self[c] # 0 =>
            /\ \A k \in Calls \ {c} : self[k] # 0 =>
                  /\ self[k] # self[c]
                  /\ Cur(k) # Cur(c)
                  /\ browser[c] # 0 => browser[k] # browser[c]
            /\ Rec(c).has_onlyfans <=> (trail[c] # <<>> /\ Last(trail[c])[2] = "found")
            /\ Len(Raised(c)) <= Len(Rec(c).errors)
            /\ Len(Raised(c)) = 0 /\ CallsOf(c, "goto") = <<>> => Rec(c).errors = <<>>
            /\ pc[c] = "Done" => returned[c] = Cur(c))
    /\ [][\A c \in Calls : pc[c] = "Done" =>
             /\ returned'[c] = returned[c]
             /\ heap'[returned[c]] = heap[returned[c]]]_vars

\* Two calls in their browser step at once, the first with an error of its
\* own on record and the second with none.
C9_Witness ==
    /\ pc[1] = "InteractiveAnalysis"
    /\ pc[2] = "InteractiveAnalysis"
    /\ browser[1] # 0
    /\ browser[2] # 0
    /\ Rec(1).errors # <<>>
    /\ Rec(2).errors = <<>>

\* C10: a second detect_onlyfans against the same static page, on the same
\* detector or on a new one, starts from a fresh record, returns the same
\* detection_method and onlyfans_urls in a dict of its own with nothing
\* carried over, and leaves the dict the first call returned as it was.
C10_Idempotent ==
    /\ [](/\ pc[2] = "DirectScan" => Rec(2) = FreshRecord
          /\ pc[1] = "Done" /\ pc[2] = "Done" =>
                /\ returned[1] # returned[2]
                /\ heap[returned[2]].detection_method = heap[returned[1]].detection_method
                /\ heap[returned[2]].onlyfans_urls = heap[returned[1]].onlyfans_urls
                /\ heap[returned[2]].has_onlyfans = heap[returned[1]].has_onlyfans
                /\ heap[returned[2]].errors = heap[returned[1]].errors)
    /\ [][pc[1] = "Done" => heap'[returned[1]] = heap[returned[1]]]_vars

\* Both calls ran on one detector and returned a positive record that also
\* holds an error.
C10_Witness ==
    /\ pc[1] = "Done"
    /\ pc[2] = "Done"
    /\ self[1] = self[2]
    /\ heap[returned[2]].has_onlyfans
    /\ heap[returned[2]].errors # <<>>
    /\ heap[returned[1]] = heap[returned[2]]

\* C11: every URL of the raw markup (HTTP 200) that matches the target
\* signature and is not excluded is reported by DirectScan as it appears in
\* the markup: has_onlyfans is true, detection_method is direct_html_scan and
\* onlyfans_urls holds that URL.
C11_CandidateReportedAsItAppears ==
    unit.op = "direct" /\ unit.result # <<>> /\ unit.args[1].kind = "response"
                       /\ unit.args[1].status = 200 =>
        LET markup == unit.args[1].markup
            out == unit.result[1]
        IN  \A u \in Range(markup.hrefs \o markup.dataurls) :
                StartsWithHttp(u) /\ MatchesTarget(u) /\ ~IsExcluded(u) =>
                    /\ out.found
                    /\ out.rec.has_onlyfans
                    /\ out.rec.detection_method = "direct_html_scan"
                    /\ u \in Range(out.rec.onlyfans_urls)

\* The probe call whose first followed link is /go/of, which redirects to
\* https://short.link/x, which redirects to https://onlyfans.com/creatorname.
GoOfScenario ==
    /\ unit.op = "probe"
    /\ unit.result # <<>>
    /\ unit.args[1].kind = "response"
    /\ unit.args[1].status = 200
    /\ LET markup == unit.args[1].markup
           links == Followed(Prefix(markup.hrefs \o markup.dataurls, LinkCap))
       IN  links # <<>> /\ links[1] = GoOf
    /\ unit.args[2]["go"] = [kind |-> "response", status |-> 302, location |-> ShortLink]
    /\ unit.args[2]["short"] = [kind |-> "response", status |-> 302, location |-> OFProfile]

\* C12: when /go/of, extracted from the raw markup, redirects through
\* https://short.link/x to https://onlyfans.com/creatorname, the probe
\* returns has_onlyfans = true, detection_method = redirect_chain and
\* onlyfans_urls = [the terminal URL] after a single follower call, and the
\* chain that call returned holds the three URLs visited (two redirects).
C12_ProbeEndToEnd ==
    GoOfScenario =>
        LET out == unit.result[1]
        IN  /\ out.found
            /\ out.exc = NoExc
            /\ out.rec.has_onlyfans
            /\ out.rec.detection_method = "redirect_chain"
            /\ out.rec.onlyfans_urls = <<OFProfile>>
            /\ out.rec.errors = <<>>
            /\ Len(out.followed) = 1
            /\ out.followed[1].current = OFProfile
            /\ out.followed[1].chain = <<UrlJoin(unit.args[3], GoOf), ShortLink, OFProfile>>
            /\ out.followed[1].heads = 3

\* The scenario, with /go/of the only link of the markup.
C12_Witness ==
    /\ GoOfScenario
    /\ unit.args[1].markup = [hrefs |-> <<GoOf>>, dataurls |-> <<>>]
    /\ unit.result[1].found
    /\ Len(unit.result[1].followed[1].chain) = 3

\* C12 as stated: in that scenario the chain the follower returned has
\* length 2.
C12_ChainOfLengthTwo ==
    GoOfScenario => Len(unit.result[1].followed[1].chain) = 2

\* C13: for a batch of n bio links, 1 <= n <= 10, every item is passed to a
\* detection in input order, an item whose detection raises gets an error
\* entry and no other item does, and the response holds the n results in
\* input order; a batch of more than 10 links is answered 400 with no
\* detection run.
C13_BatchIsolation ==
    api.route = "POST /batch" /\ api.kind = "list" =>
        LET n == Len(api.value)
            done == Len(api.detections)
        IN  /\ n > BatchCap =>
                /\ api.detections = <<>>
                /\ api.response # <<>> => api.response[1].status = 400
            /\ n \in 1..BatchCap =>
                /\ done <= n
                /\ Len(api.results) = done
                /\ \A k \in 1..done :
                     /\ api.detections[k].bio_link = api.value[k]
                     /\ api.results[k].bio_link = api.value[k]
                     /\ api.results[k].error # <<>> <=> api.detections[k].outcome = "raised"
                     /\ api.results[k].has_onlyfans <=> api.detections[k].outcome = "found"
                /\ api.response # <<>> =>
                     /\ done = n
                     /\ api.response[1].status = 200
                     /\ api.response[1].payload = api.results

\* A full batch answered: its first detection raised, a later one found.
C13_Witness ==
    /\ api.route = "POST /batch"
    /\ api.kind = "list"
    /\ Len(api.value) = BatchCap
    /\ api.response # <<>>
    /\ Len(api.response[1].payload) = BatchCap
    /\ api.detections[1].outcome = "raised"
    /\ api.response[1].payload[1].error # <<>>
    /\ api.response[1].payload[2].error = <<>>
    /\ api.response[1].payload[BatchCap].has_onlyfans

\* A bio link that is present and is a URL.
IsUrl(v) ==
    v \in AbsoluteURLs

\* C14: on POST /detect, GET /detect and for each item of POST /batch, no
\* detection runs on a missing or malformed bio link, and the request is
\* answered with a validation error (400), never with the answer of a
\* failed detection.
C14_ValidatedBeforeDetection ==
    /\ \A k \in 1..Len(api.detections) : IsUrl(api.detections[k].bio_link)
    /\ api.route \in {"POST /detect", "GET /detect"} /\ api.response # <<>>
                 /\ (api.kind # "scalar" \/ ~IsUrl(api.value[1]))
          => api.response[1].status = 400
    /\ api.route = "POST /batch" /\ api.response # <<>>
                 /\ (api.kind # "list" \/ \E k \in 1..Len(api.value) : ~IsUrl(api.value[k]))
          => api.response[1].status = 400

\* C15: the chain _follow_redirects returns starts with the origin URL and
\* ends with the returned terminal URL; each further element is the Location
\* of a redirect answered for the element before it, so the chain has one
\* element more than the redirects followed and at most max_redirects + 1;
\* and a walk that ends early ends at a URL whose HEAD raised, answered a
\* non-redirect status or carried no Location, with that URL returned.
C15_ChainShape ==
    follow.result # <<>> =>
        LET r == follow.result[1]
            redirects == IF r.stop THEN r.heads - 1 ELSE r.heads
            Redirects(u) ==
                LET h == HeadOf(follow.graph, u)
                IN  h.kind = "response" /\ h.status \in RedirectStatuses
                                        /\ h.location # NoLocation
        IN  /\ r.chain[1] = follow.url
            /\ Last(r.chain) = r.current
            /\ Len(r.chain) = redirects + 1
            /\ Len(r.chain) <= follow.hops + 1
            /\ \A k \in 1..(Len(r.chain) - 1) :
                 /\ Redirects(r.chain[k])
                 /\ r.chain[k + 1] = UrlJoin(r.chain[k], HeadOf(follow.graph, r.chain[k]).location)
            /\ r.stop => ~Redirects(r.current)
            /\ ~r.stop => r.heads = follow.hops

\* A walk of one redirect ended by a transport error at the URL reached.
C15_Witness ==
    /\ follow.result # <<>>
    /\ follow.hops = max_redirects
    /\ follow.result[1].stop
    /\ follow.result[1].chain = <<OtherOrigin \o GoOf, ShortLink>>
    /\ follow.result[1].current = ShortLink
    /\ HeadOf(follow.graph, ShortLink).kind = "raise"

\* C16: a dispatch on a link.me bio link returns what the link.me strategy
\* returns, on linktr.ee what the Linktree strategy returns, and on every
\* other domain, named in the table (beacons.ai, getmysocial.com) or not,
\* what the generic strategy returns.
C16_DispatchTotal ==
    unit.op = "clicks" /\ unit.result # <<>> =>
        LET base_url == unit.args[1]
            script == unit.args[2]
        IN  unit.result[1] =
                CASE NetlocHas(base_url, LinkmeOrigin) -> HandleLinkmeClicks(FreshRecord, script)
                  [] NetlocHas(base_url, LinktreeOrigin) ->
                        HandleLinktreeClicks(FreshRecord, script)
                  [] OTHER -> HandleGenericClicks(FreshRecord, script)

\* C18: on link.me the container is clicked first, at most one continue
\* button is clicked, namely the first selector in the fixed order whose
\* button is present, and linkme_interactive is declared only with the page
\* URL after that click, matching the target signature and not excluded.
C18_LinkmeFlow ==
    unit.op = "clicks" /\ unit.result # <<>> /\ NetlocHas(unit.args[1], LinkmeOrigin) =>
        LET script == unit.args[2]
            out == unit.result[1]
            present == {i \in DOMAIN ContinueSelectors : script.buttons[i] # "absent"}
        IN  /\ script.container # "present" => ~out.found
            /\ script.container = "present" =>
                 /\ out.clicked[1] = "container"
                 /\ Len(out.clicked) <= 2
                 /\ Len(out.clicked) = 2 =>
                       \E i \in present :
                           /\ \A k \in present : i <= k
                           /\ out.clicked[2] = ContinueSelectors[i]
                           /\ out.found => out.rec.onlyfans_urls = <<script.buttons[i]>>
                 /\ out.found =>
                       /\ Len(out.clicked) = 2
                       /\ out.rec.detection_method = "linkme_interactive"
                       /\ \A k \in DOMAIN out.rec.onlyfans_urls :
                            /\ MatchesTarget(out.rec.onlyfans_urls[k])
                            /\ ~IsExcluded(out.rec.onlyfans_urls[k])

C19_ProbeBounded ==
    unit.op = "probe" /\ unit.result # <<>> /\ unit.args[1].kind = "response"
                      /\ unit.args[1].status = 200 =>
        LET links == unit.args[1].markup.hrefs \o unit.args[1].markup.dataurls
            first == SubSeq(links, 1, IF Len(links) < 20 THEN Len(links) ELSE 20)
            due == SelectSeq(first, LAMBDA l : l # Anchor /\ l # Mailto)
            out == unit.result[1]
            calls == out.followed
        IN  /\ Len(calls) <= 20
            /\ Len(calls) <= Len(due)
            /\ \A k \in DOMAIN calls :
                 /\ calls[k].chain[1] = UrlJoin(unit.args[3], due[k])
                 /\ calls[k].chain[1] \notin {Anchor, Mailto}
                 /\ k < Len(calls) => ~IsProfileMatch(calls[k].current)
            /\ out.found <=> calls # <<>> /\ IsProfileMatch(Last(calls).current)
            /\ out.found => out.rec.onlyfans_urls = <<Last(calls).current>>
            /\ ~out.found => Len(calls) = Len(due)

\* A markup of 21 links: the first 20 are followed although each walk ends
\* in a transport error, and the 21st, a profile URL, is not.
C19_Witness ==
    /\ unit.op = "probe"
    /\ unit.result # <<>>
    /\ unit.args[1].markup.hrefs = [i \in 1..LinkCap |-> GoOf] \o <<OFProfile>>
    /\ unit.args[2]["go"].kind = "raise"
    /\ Len(unit.result[1].followed) = LinkCap
    /\ ~unit.result[1].found

\* C20: in every result record the URLs of onlyfans_urls are pairwise
\* distinct.
C20_UrlsDistinct ==
    \A r \in DOMAIN heap :
        \A i, j \in DOMAIN heap[r].onlyfans_urls :
            i # j => heap[r].onlyfans_urls[i] # heap[r].onlyfans_urls[j]

\* C21: a strategy called on a fresh record (DirectScan, RedirectProbe)
\* either returns found with the record populated, or returns not-found
\* with at least one note appended to errors, whatever its GET answered.
C21_NotFoundLeavesANote ==
    unit.op \in {"direct", "probe"} /\ unit.result # <<>> =>
        LET out == unit.result[1]
        IN  /\ out.exc = NoExc
            /\ out.found =>
                 /\ out.rec.has_onlyfans
                 /\ out.rec.onlyfans_urls # <<>>
                 /\ out.rec.detection_method # NoneVal
            /\ ~out.found => Len(out.rec.errors) > Len(FreshRecord.errors)

\* The strategy a note comes from, in attempt order; 4: detect_onlyfans itself.
NoteRank(note) ==
    CASE note = "Direct link check failed" -> 1
      [] note = "Redirect chain check failed" -> 3
      [] note = "Detection failed" -> 4
      [] OTHER -> 2

\* C22: within one detect_onlyfans call every step leaves the earlier notes
\* of errors in place and only appends to them; the notes stand in the order
\* the strategies were attempted, none from a strategy not yet started; and
\* a call that ends with no strategy successful returns the record it filled,
\* has_onlyfans false, with all these notes.
C22_ErrorsOnlyGrow ==
    /\ [](self[1] # 0 =>
            LET errors == Rec(1).errors
            IN  /\ \A i, j \in DOMAIN errors : i < j => NoteRank(errors[i]) <= NoteRank(errors[j])
                /\ \A i \in DOMAIN errors :
                     NoteRank(errors[i]) < 4 => NoteRank(errors[i]) <= Len(trail[1]) + 1
                /\ pc[1] = "Done" =>
                     /\ returned[1] = Cur(1)
                     /\ Last(trail[1])[2] # "found" => ~heap[returned[1]].has_onlyfans)
    /\ [][self[1] # 0 =>
             /\ self'[1] = self[1]
             /\ detectors'[self[1]].results = Cur(1)
             /\ IsPrefix(Rec(1).errors, heap'[Cur(1)].errors)]_vars

\* A call that returned not-found with a note from each strategy, the second
\* one left by the Link Extractor.
C22_Witness ==
    /\ pc[1] = "Done"
    /\ ~heap[returned[1]].has_onlyfans
    /\ Len(trail[1]) = 3
    /\ heap[returned[1]].errors = <<"Direct link check failed", "Link extraction failed",
                                    "Redirect chain check failed">>

\* C23: an element-interaction error ends neither the Link Extractor nor a
\* click strategy. In the extractor, a pass whose count() raised or an element
\* whose handle is stale is left out and the links of the other elements and
\* of the other passes are returned; in either, the handler of the whole
\* pass or strategy is not reached, so no note of it is left in errors.
C23_ElementErrorsStayLocal ==
    /\ unit.op = "extract" /\ unit.result # <<>> =>
          LET page == unit.args[1]
              base_url == unit.args[2]
              r == unit.result[1]
          IN  /\ r.out.exc = NoExc
              /\ r.out.rec.errors = <<>>
              /\ page.fail # "anchors_count" => AnchorLinks(page, base_url) \subseteq r.links
              /\ page.fail # "data_count" => DataLinks(page, base_url) \subseteq r.links
              /\ page.fail # "content" => TextLinks(page) \subseteq r.links
    /\ unit.op = "clicks" /\ unit.result # <<>> =>
          /\ unit.result[1].exc = NoExc
          /\ unit.result[1].rec.errors = <<>>

====
